---- MODULE Spec2Model ----
(***************************************************************************)
(* VidCompress (vidcompress.py): main() walks a folder tree, probes every  *)
(* video file, decides skip / remux / transcode, runs the external tool    *)
(* into a temp file and promotes or cleans up.  The model keeps the file   *)
(* system as a function from paths to file contents and follows main()     *)
(* one file-system or process step at a time.                              *)
(***************************************************************************)
EXTENDS Integers, Sequences, FiniteSets, TLC

VARIABLES
    fs,                 \* the tree: existing file path -> content
    fs0,                \* the tree as it was when main() was called
    keep_original,      \* main() parameter
    video_codec_choice, \* main() parameter
    container_choice,   \* main() parameter
    files,              \* entries of the os.walk listing not yet iterated
    input_path,         \* file of the current loop iteration
    pc,                 \* position inside main()
    branch,             \* which of the three processing blocks is running
    fs_before,          \* the tree as it was when the current iteration began
    probed,             \* path -> media_info returned by get_media_info
    calls,              \* path -> external operations started for it
    notices,            \* path -> lines printed while handling it
    dirs,               \* directories os.walk has still to list
    folder_exists,      \* os.path.exists(args.folder_path)
    exit_code,          \* <<n>> once the process has exited with status n
    stderr,             \* lines the process has written to sys.stderr
    earlier,            \* <<r>>: what the run finished before this one did
    fn,                 \* the helper function being executed on its own
    at,                 \* position inside that function
    tool,               \* how the external binary behaves when it is run
    captured,           \* <<result.stdout>> of subprocess.run
    command,            \* the command list the function has built
    child,              \* lines the child process has still to write
    pipe,               \* lines written by the child and not yet read
    line,               \* <<l>>: the line read and not yet forwarded
    sys_stdout,         \* lines written to sys.stdout
    result              \* what the function returned or raised

vars == <<fs, fs0, keep_original, video_codec_choice, container_choice,
          files, input_path, pc, branch, fs_before, probed, calls, notices,
          dirs, folder_exists, exit_code, stderr, earlier,
          fn, at, tool, captured, command, child, pipe, line, sys_stdout,
          result>>

\* the state of a helper function executed on its own
callvars == <<fn, at, tool, captured, command, child, pipe, line, sys_stdout,
              result>>

----------------------------------------------------------------------------
(* Bounds *)

\* largest number of files in a tree with colliding names
MaxFiles == 2

\* largest number of runs of the program one after the other on a tree
MaxRuns == 2

\* largest number of lines a child process prints
MaxLines == 2

----------------------------------------------------------------------------
(* Paths: directory, stem (name without the last extension, kept as the    *)
(* list of pieces it was concatenated from) and extension (no dot).        *)

Root == "root"

Path(stem, ext) == [dir |-> Root, stem |-> stem, ext |-> ext]

\* directories below the root, at depth one and two
SubDir == "root/sub"

DeepDir == "root/sub/deep"

\* os.path.join(root, file) for the root os.walk yields
PathIn(dir, stem, ext) == [dir |-> dir, stem |-> stem, ext |-> ext]

\* os.walk is top-down: a directory is listed after the one that holds it
ParentDir(dir) == IF dir = DeepDir THEN SubDir ELSE Root

\* the walk not descending below the root
Listing_TopOnly(tree, dir) ==
    IF dir = Root THEN {p \in DOMAIN tree : p.dir = dir} ELSE {}

\* the files of one directory, as os.walk lists them
Listing(tree, dir) == {p \in DOMAIN tree : p.dir = dir}

\* the directories below the root that hold files
SubDirs(tree) == {p.dir : p \in DOMAIN tree} \ {Root}

NoPath == [dir |-> "", stem |-> <<>>, ext |-> ""]

VIDEO_EXTENSIONS == {"mkv", "mp4", "avi", "mov", "wmv", "flv", "webm", "m2ts"}

VideoCodecChoices == {"h.265", "h.264", "vp9"}

ContainerChoices == {"mkv", "mp4"}

\* str.lower() on an extension
Lower(e) ==
    CASE e = "MKV" -> "mkv"
      [] e = "MP4" -> "mp4"
      [] e = "AVI" -> "avi"
      [] OTHER -> e

\* any(file.lower().endswith(ext) for ext in VIDEO_EXTENSIONS)
IsVideoFile(p) == Lower(p.ext) \in VIDEO_EXTENSIONS

\* os.path.splitext(input_path)[0] + '.' + container_choice
OutputPath(p, container) == [dir |-> p.dir, stem |-> p.stem, ext |-> container]

\* os.path.splitext(input_path)[0] + '.temp.' + container_choice
TempPath(p, container) ==
    [dir |-> p.dir, stem |-> Append(p.stem, ".temp"), ext |-> container]

\* os.path.join(target_dir, f"{base_name}_{action}.{container_choice}")
SuffixedPath(p, action, container) ==
    [dir |-> p.dir, stem |-> Append(p.stem, action), ext |-> container]

----------------------------------------------------------------------------
(* File contents and what ffprobe reports for them *)

MP4_FORMAT == <<"mov", "mp4", "m4a", "3gp", "3g2", "mj2">>

MKV_FORMAT == <<"matroska", "webm">>

\* a format_name that lists one more alias after the matroska ones
LONGER_FORMAT == Append(MKV_FORMAT, "x")

\* stream.get('channels') of a stream that has no such key: None, no count
NoCount == -1

VideoStream(codec) ==
    [codec_type |-> "video", codec_name |-> codec, channels |-> 0]

AudioStream(codec, n) ==
    [codec_type |-> "audio", codec_name |-> codec, channels |-> n]

\* a well-formed media file; vid names the video it carries
Media(vid, fmt, streams) ==
    [vid |-> vid, kind |-> "media", format_name |-> fmt, streams |-> streams]

\* a file ffprobe cannot read (not a video, or a truncated output)
Broken(vid, kind) ==
    [vid |-> vid, kind |-> kind, format_name |-> <<>>, streams |-> <<>>]

None == [none |-> TRUE, format_name |-> <<>>, streams |-> <<>>]

\* what is recorded for a file get_media_info has not been called on
NotProbed == [none |-> TRUE, format_name |-> <<"not probed">>, streams |-> <<>>]

\* get_media_info: the parsed ffprobe output, None when ffprobe exits non-zero
get_media_info(tree, p) ==
    IF p \in DOMAIN tree /\ tree[p].kind = "media"
    THEN [none |-> FALSE, format_name |-> tree[p].format_name,
          streams |-> tree[p].streams]
    ELSE None

\* the codec_type filter left out of the generator
FirstStream_AnyType(streams, t) == IF streams = <<>> THEN 0 ELSE 1

\* next((s for s in streams if s.get('codec_type') == t), None): its index, 0 for None
FirstStream(streams, t) ==
    LET hits == {i \in 1..Len(streams) : streams[i].codec_type = t}
    IN  IF hits = {} THEN 0 ELSE CHOOSE i \in hits : \A j \in hits : i <= j

expected_container_name(container) ==
    IF container = "mp4" THEN MP4_FORMAT
    ELSE IF container = "mkv" THEN MKV_FORMAT
    ELSE <<>>

\* the h.265 entry spelled like the choice instead of like ffprobe's codec_name
expected_video_codec_Misnamed(choice) ==
    IF choice = "h.265" THEN "h265"
    ELSE IF choice = "h.264" THEN "h264"
    ELSE IF choice = "vp9" THEN "vp9"
    ELSE ""

expected_video_codec(choice) ==
    IF choice = "h.265" THEN "hevc"
    ELSE IF choice = "h.264" THEN "h264"
    ELSE IF choice = "vp9" THEN "vp9"
    ELSE ""

HasVideo(mi) == ~mi.none /\ FirstStream(mi.streams, "video") # 0

video_codec(mi) == mi.streams[FirstStream(mi.streams, "video")].codec_name

audio_codec(mi) ==
    LET i == FirstStream(mi.streams, "audio")
    IN  IF i = 0 THEN "" ELSE mi.streams[i].codec_name

\* a missing channel count taken to be stereo
audio_channels_DefaultStereo(mi) ==
    LET i == FirstStream(mi.streams, "audio")
    IN  IF i = 0 THEN 0
        ELSE IF mi.streams[i].channels = NoCount THEN 2
        ELSE mi.streams[i].channels

audio_channels(mi) ==
    LET i == FirstStream(mi.streams, "audio")
    IN  IF i = 0 THEN 0 ELSE mi.streams[i].channels

is_video_codec_match(mi, choice) == video_codec(mi) = expected_video_codec(choice)

\* the channel count left out of the comparison
is_audio_codec_match_AnyChannels(mi) == audio_codec(mi) = "aac"

is_audio_codec_match(mi) == audio_codec(mi) = "aac" /\ audio_channels(mi) = 2

is_container_match(mi, container) ==
    mi.format_name = expected_container_name(container)

----------------------------------------------------------------------------
(* The three processing blocks of main() *)

\* the remux block entered only for files not yet carrying the target extension
BranchOf_RemuxByExtension(mi, p, choice, container) ==
    IF is_video_codec_match(mi, choice) /\ is_audio_codec_match(mi)
       /\ ~is_container_match(mi, container) /\ Lower(p.ext) # container
    THEN "remux"
    ELSE IF Lower(p.ext) = container THEN "inplace"
    ELSE "general"

\* which block handles a candidate that is not skipped
BranchOf(mi, p, choice, container) ==
    IF is_video_codec_match(mi, choice) /\ is_audio_codec_match(mi)
       /\ ~is_container_match(mi, container)
    THEN "remux"
    ELSE IF Lower(p.ext) = container THEN "inplace"
    ELSE "general"

\* the general block taking its first alternative whatever the codecs
OperationOf_GeneralRemux(b, mi, choice) ==
    IF b = "inplace" THEN "transcode_file" ELSE "remux_file"

\* the external operation a block starts
OperationOf(b, mi, choice) ==
    IF b = "remux" THEN "remux_file"
    ELSE IF b = "inplace" THEN "transcode_file"
    ELSE IF is_video_codec_match(mi, choice) /\ is_audio_codec_match(mi)
         THEN "remux_file"
         ELSE "transcode_file"

\* the suffix a block puts into the kept-original output name
ActionSuffix(b, mi, choice) ==
    IF b = "remux" THEN "_remuxed"
    ELSE IF b = "inplace" THEN "_re-encoded"
    ELSE IF is_video_codec_match(mi, choice) /\ is_audio_codec_match(mi)
         THEN "_remuxed"
         ELSE "_transcoded"

\* the final path taken to be output_path when the original is not kept
FinalPath_OutputPath(p, b, mi, keep, choice, container) ==
    IF keep THEN SuffixedPath(p, ActionSuffix(b, mi, choice), container)
    ELSE OutputPath(p, container)

\* final_path of a block
FinalPath(p, b, mi, keep, choice, container) ==
    IF keep THEN SuffixedPath(p, ActionSuffix(b, mi, choice), container)
    ELSE p

\* the muxer ffmpeg picks from the output file's extension
MuxerFormat(ext) == IF ext = "mp4" THEN MP4_FORMAT ELSE MKV_FORMAT

RECURSIVE EncodeStreams(_, _)
\* ffmpeg -c:v <encoder> -c:a aac -ac 2
EncodeStreams(streams, codec) ==
    IF streams = <<>> THEN <<>>
    ELSE LET s == Head(streams)
             t == IF s.codec_type = "video" THEN VideoStream(codec)
                  ELSE AudioStream("aac", 2)
         IN  <<t>> \o EncodeStreams(Tail(streams), codec)

\* the audio copied instead of encoded to stereo aac
TranscodeOutput_CopyAudio(src, out, choice) ==
    Media(src.vid, MuxerFormat(out.ext),
          [i \in DOMAIN src.streams |->
              IF src.streams[i].codec_type = "video"
              THEN VideoStream(expected_video_codec(choice))
              ELSE src.streams[i]])

\* what transcode_file leaves at output_path on exit code 0
TranscodeOutput(src, out, choice) ==
    Media(src.vid, MuxerFormat(out.ext),
          EncodeStreams(src.streams, expected_video_codec(choice)))

\* what remux_file leaves at output_path on exit code 0 (-c copy)
RemuxOutput(src, out) == Media(src.vid, MuxerFormat(out.ext), src.streams)

----------------------------------------------------------------------------
(* File-system primitives *)

Exists(tree, p) == p \in DOMAIN tree

NoTree == [q \in {} |-> q]

\* os.remove(p)
Remove(tree, p) == [q \in (DOMAIN tree) \ {p} |-> tree[q]]

\* writing content c at p, replacing what was there
WriteFile(tree, p, c) ==
    [q \in (DOMAIN tree) \cup {p} |-> IF q = p THEN c ELSE tree[q]]

\* the file copied to dst and left at src
MoveFile_Copy(tree, src, dst) == WriteFile(tree, dst, tree[src])

\* shutil.move(src, dst) inside one file system
MoveFile(tree, src, dst) == Remove(WriteFile(tree, dst, tree[src]), src)

Notice(text, p) == [stream |-> "stdout", text |-> text, path |-> p]

Say(p, text, about) ==
    [notices EXCEPT ![p] = Append(@, Notice(text, about))]

----------------------------------------------------------------------------
(* Initial trees *)

Stem == <<"a">>

MainPaths == {Path(Stem, "mkv"), Path(Stem, "mp4")}

\* names a temp artifact of an earlier run would have
LeftoverPaths == {Path(Append(Stem, ".temp"), c) : c \in ContainerChoices}

\* the name an output of an earlier keep-original run would have
EarlierOutputPaths == {Path(Append(Stem, "_remuxed"), "mp4")}

\* a file main() has no business with
OtherPaths == {Path(Stem, "txt")}

TreePaths == MainPaths \cup LeftoverPaths \cup EarlierOutputPaths \cup OtherPaths

FullStreams ==
    {<<VideoStream(v)>> \o a :
        v \in {"hevc", "h264", "vp9"},
        a \in {<<>>, <<AudioStream("aac", 2)>>, <<AudioStream("aac", 6)>>,
               <<AudioStream("mp3", 2)>>, <<AudioStream("aac", NoCount)>>}}

\* contents a single-file tree is drawn from
FullContents(p) ==
    {Media(p, f, s) : f \in {MP4_FORMAT, MKV_FORMAT, LONGER_FORMAT},
                      s \in FullStreams}
    \cup {Media(p, MP4_FORMAT, <<AudioStream("aac", 2)>>), Broken(p, "corrupt")}

\* contents the files of a larger tree are drawn from
FewContents(p) ==
    IF p \in OtherPaths THEN {Broken(p, "text")}
    ELSE {Media(p, MKV_FORMAT, <<VideoStream("hevc"), AudioStream("aac", 2)>>),
          Media(p, MP4_FORMAT, <<VideoStream("h264"), AudioStream("aac", 2)>>),
          Broken(p, "corrupt")}

SingleTrees ==
    UNION {{[q \in {p} |-> c] : c \in FullContents(p)} :
              p \in MainPaths \cup {Path(Stem, "avi"), Path(Stem, "mov")}}

TreesOn(ps) == {t \in [ps -> UNION {FewContents(p) : p \in ps}] :
                    \A p \in ps : t[p] \in FewContents(p)}

LargerTrees ==
    UNION {TreesOn(ps) : ps \in {s \in SUBSET TreePaths :
                                    Cardinality(s) >= 2 /\ Cardinality(s) <= MaxFiles}}

\* two files of one directory with the same stem, neither an mp4
SameStemPaths == {Path(Stem, "avi"), Path(Stem, "mkv")}

SameStemTrees == TreesOn(SameStemPaths)

\* files in directories below the root, next to one in the root
NestedPaths ==
    {PathIn(SubDir, Stem, "mkv"), PathIn(SubDir, Stem, "txt"),
     PathIn(DeepDir, Stem, "mp4"), Path(Stem, "mkv")}

NestedTrees ==
    UNION {TreesOn(ps) : ps \in {s \in SUBSET NestedPaths :
                                    /\ Cardinality(s) >= 1
                                    /\ Cardinality(s) <= MaxFiles
                                    /\ s # {Path(Stem, "mkv")}}}

\* how an external binary behaves: whether it can be started, and for the
\* process subprocess.run starts (ffprobe, ffmpeg -codecs) and the process
\* Popen starts (the conversion) the exit status and the output
Tool(binary, run_returncode, run_stdout, returncode, lines) ==
    [binary |-> binary, run_returncode |-> run_returncode,
     run_stdout |-> run_stdout, returncode |-> returncode, lines |-> lines]

NoResult == [kind |-> "none", none |-> FALSE, value |-> <<>>]

\* no helper function is executed on its own
NoCall ==
    /\ fn = "none"
    /\ at = "none"
    /\ tool = Tool("ok", 0, <<>>, 0, <<>>)
    /\ captured = <<>>
    /\ command = <<>>
    /\ child = <<>>
    /\ pipe = <<>>
    /\ line = <<>>
    /\ sys_stdout = <<>>
    /\ result = NoResult

\* the first run of the program on one of the trees, main() not yet entered
Start(trees) ==
    /\ fs \in trees
    /\ fs0 = fs
    /\ keep_original \in BOOLEAN
    /\ video_codec_choice \in VideoCodecChoices
    /\ container_choice \in ContainerChoices
    /\ files = Listing(fs, Root)
    /\ dirs = SubDirs(fs)
    /\ input_path = NoPath
    /\ branch = "none"
    /\ fs_before = NoTree
    /\ probed = [p \in DOMAIN fs |-> NotProbed]
    /\ calls = [p \in DOMAIN fs |-> <<>>]
    /\ notices = [p \in DOMAIN fs |-> <<>>]
    /\ exit_code = <<>>
    /\ stderr = <<>>
    /\ earlier = <<>>
    /\ NoCall

\* main() called on an existing folder
Init ==
    /\ Start(SingleTrees \cup LargerTrees \cup NestedTrees \cup SameStemTrees)
    /\ folder_exists = TRUE
    /\ pc = "loop"

----------------------------------------------------------------------------
(* main() *)

params == <<fs0, keep_original, video_codec_choice, container_choice>>

\* what belongs to the process around main() and to the runs before it
process == <<folder_exists, exit_code, stderr, earlier, callvars>>

temp_output_path == TempPath(input_path, container_choice)

media_info == probed[input_path]

final_path ==
    FinalPath(input_path, branch, media_info, keep_original,
              video_codec_choice, container_choice)

\* the iteration is over: back to the for statement
Continue ==
    /\ pc' = "loop"
    /\ input_path' = NoPath
    /\ branch' = "none"
    /\ fs_before' = NoTree

\* for file in files: next entry; entries without a video extension are passed over
NextFile ==
    /\ pc = "loop"
    /\ \E f \in files :
        /\ files' = files \ {f}
        /\ IF IsVideoFile(f)
           THEN /\ input_path' = f
                /\ pc' = "probe"
                /\ fs_before' = fs
           ELSE UNCHANGED <<input_path, pc, fs_before>>
    /\ UNCHANGED <<fs, branch, probed, calls, notices, params, dirs,
                   process>>

\* for root, _, files in os.walk(folder_path): the listing of the next directory
NextDir ==
    /\ pc = "loop"
    /\ files = {}
    /\ \E d \in dirs :
        /\ ParentDir(d) \notin dirs
        /\ dirs' = dirs \ {d}
        /\ files' = Listing(fs, d)
    /\ UNCHANGED <<fs, input_path, pc, branch, fs_before, probed, calls, notices,
                   params, process>>

\* the walk is exhausted: main() returns
Return ==
    /\ pc = "loop"
    /\ files = {}
    /\ dirs = {}
    /\ pc' = "returned"
    /\ UNCHANGED <<fs, files, input_path, branch, fs_before, probed, calls,
                   notices, params, dirs,
                   process>>

\* get_media_info and the decision
Probe ==
    /\ pc = "probe"
    /\ \E ffprobe_ok \in BOOLEAN :
        LET mi == IF ffprobe_ok THEN get_media_info(fs, input_path) ELSE None
        IN  /\ probed' = [probed EXCEPT ![input_path] = mi]
            /\ IF ~HasVideo(mi)
               THEN /\ Continue
                    /\ UNCHANGED notices
               ELSE IF /\ is_video_codec_match(mi, video_codec_choice)
                       /\ is_audio_codec_match(mi)
                       /\ is_container_match(mi, container_choice)
               THEN /\ Continue
                    /\ notices' = Say(input_path, "Skipping", input_path)
               ELSE LET b == BranchOf(mi, input_path, video_codec_choice,
                                      container_choice)
                    IN  /\ branch' = b
                        /\ pc' = "rmtemp"
                        /\ notices' = Say(input_path,
                                          CASE b = "remux" -> "Remuxing"
                                            [] b = "inplace" -> "Re-encoding"
                                            [] OTHER -> "Processing",
                                          input_path)
                        /\ UNCHANGED <<input_path, fs_before>>
    /\ UNCHANGED <<fs, files, calls, params, dirs,
                   process>>

\* the removal of a leftover temp file written in the in-place block only
RemoveLeftover_InPlaceOnly ==
    /\ pc = "rmtemp"
    /\ IF branch = "inplace" /\ Exists(fs, temp_output_path)
       THEN /\ fs' = Remove(fs, temp_output_path)
            /\ pc' = "exec"
       ELSE /\ pc' = "exec"
            /\ UNCHANGED fs
    /\ UNCHANGED <<files, input_path, branch, fs_before, probed, calls, notices,
                   params, dirs,
                   process>>

\* if os.path.exists(temp_output_path): os.remove(temp_output_path)
RemoveLeftover ==
    /\ pc = "rmtemp"
    /\ IF Exists(fs, temp_output_path)
       THEN \E ok \in BOOLEAN :
              IF ok THEN /\ fs' = Remove(fs, temp_output_path)
                         /\ pc' = "exec"
                    ELSE /\ pc' = "raised"
                         /\ UNCHANGED fs
       ELSE /\ pc' = "exec"
            /\ UNCHANGED fs
    /\ UNCHANGED <<files, input_path, branch, fs_before, probed, calls, notices,
                   params, dirs,
                   process>>

\* remux_file / transcode_file into the temp path
Execute ==
    /\ pc = "exec"
    /\ LET op == OperationOf(branch, media_info, video_codec_choice)
           out == IF op = "remux_file"
                  THEN RemuxOutput(fs[input_path], temp_output_path)
                  ELSE TranscodeOutput(fs[input_path], temp_output_path,
                                       video_codec_choice)
       IN  /\ calls' = [calls EXCEPT ![input_path] =
                            Append(@, [op |-> op, input |-> input_path,
                                       output |-> temp_output_path])]
           /\ \/ /\ fs' = WriteFile(fs, temp_output_path, out)
                 /\ pc' = "makedirs"
              \/ /\ \/ fs' = WriteFile(fs, temp_output_path,
                                       Broken(fs[input_path].vid, "partial"))
                    \/ UNCHANGED fs
                 /\ pc' = "opfailed"
              \/ /\ pc' = "raised"
                 /\ UNCHANGED fs
    /\ UNCHANGED <<files, input_path, branch, fs_before, probed, notices, params, dirs,
                   process>>

\* the original removed only after the move: makedirs goes on to shutil.move
MakeDirs_ThenMove ==
    /\ pc = "makedirs"
    /\ \E ok \in BOOLEAN : pc' = IF ok THEN "move" ELSE "except"
    /\ UNCHANGED <<fs, files, input_path, branch, fs_before, probed, calls,
                   notices, params, dirs,
                   process>>

\* os.makedirs(target_dir, exist_ok=True)
MakeDirs ==
    /\ pc = "makedirs"
    /\ \E ok \in BOOLEAN : pc' = IF ok THEN "rmorig" ELSE "except"
    /\ UNCHANGED <<fs, files, input_path, branch, fs_before, probed, calls,
                   notices, params, dirs,
                   process>>

\* the keep_original test left out of the condition
RemoveOriginal_Always ==
    /\ pc = "rmorig"
    /\ IF Exists(fs, input_path)
       THEN /\ fs' = Remove(fs, input_path)
            /\ pc' = "move"
       ELSE /\ pc' = "move"
            /\ UNCHANGED fs
    /\ UNCHANGED <<files, input_path, branch, fs_before, probed, calls, notices,
                   params, dirs,
                   process>>

\* if not keep_original and os.path.exists(input_path): os.remove(input_path)
RemoveOriginal ==
    /\ pc = "rmorig"
    /\ IF ~keep_original /\ Exists(fs, input_path)
       THEN \E ok \in BOOLEAN :
              IF ok THEN /\ fs' = Remove(fs, input_path)
                         /\ pc' = "move"
                    ELSE /\ pc' = "except"
                         /\ UNCHANGED fs
       ELSE /\ pc' = "move"
            /\ UNCHANGED fs
    /\ UNCHANGED <<files, input_path, branch, fs_before, probed, calls, notices,
                   params, dirs,
                   process>>

\* shutil.move(temp_output_path, final_path) and the success message
Promote ==
    /\ pc = "move"
    /\ \E ok \in BOOLEAN :
         IF ok /\ Exists(fs, temp_output_path)
         THEN /\ fs' = MoveFile(fs, temp_output_path, final_path)
              /\ notices' = Say(input_path, "Successfully", final_path)
              /\ Continue
         ELSE /\ pc' = "except"
              /\ UNCHANGED <<fs, notices, input_path, branch, fs_before>>
    /\ UNCHANGED <<files, probed, calls, params, dirs,
                   process>>

\* the handlers printing their message and leaving the temp file behind
CleanUp_MessageOnly(text, about) ==
    /\ notices' = Say(input_path, text, about)
    /\ Continue
    /\ UNCHANGED <<fs, files, probed, calls, params, dirs,
                   process>>

\* the message and the removal of the temp file that both failure handlers do
CleanUp(text, about) ==
    /\ notices' = Say(input_path, text, about)
    /\ IF Exists(fs, temp_output_path)
       THEN \E ok \in BOOLEAN :
              IF ok THEN /\ fs' = Remove(fs, temp_output_path)
                         /\ Continue
                    ELSE /\ pc' = "raised"
                         /\ UNCHANGED <<fs, input_path, branch, fs_before>>
       ELSE /\ Continue
            /\ UNCHANGED fs
    /\ UNCHANGED <<files, probed, calls, params, dirs,
                   process>>

\* the handler printing its message and leaving the temp file where it is
HandleException_KeepTemp ==
    /\ pc = "except"
    /\ notices' = Say(input_path, "Error during file operation", NoPath)
    /\ Continue
    /\ UNCHANGED <<fs, files, probed, calls, params, dirs,
                   process>>

\* except Exception as e: ...
HandleException ==
    /\ pc = "except"
    /\ CleanUp("Error during file operation", NoPath)

\* a failed operation tried once more
HandleFailure_Retry ==
    /\ pc = "opfailed"
    /\ notices' = Say(input_path, "Failed to", input_path)
    /\ IF Len(calls[input_path]) < 2
       THEN /\ pc' = "rmtemp"
            /\ UNCHANGED <<input_path, branch, fs_before>>
       ELSE Continue
    /\ UNCHANGED <<fs, files, probed, calls, params, dirs,
                   process>>

\* else: print('Failed to ...') ...
HandleFailure ==
    /\ pc = "opfailed"
    /\ CleanUp("Failed to", input_path)

Next ==
    \/ NextDir
    \/ NextFile
    \/ Return
    \/ Probe
    \/ RemoveLeftover
    \/ Execute
    \/ MakeDirs
    \/ RemoveOriginal
    \/ Promote
    \/ HandleException
    \/ HandleFailure

Spec == Init /\ [][Next]_vars

----------------------------------------------------------------------------
(* The program run from the command line: the block under __main__ *)

\* python vidcompress.py <folder>: a folder that does not exist holds no files
InitCli ==
    /\ \/ folder_exists = TRUE /\ Start(SingleTrees \cup NestedTrees)
       \/ folder_exists = FALSE /\ Start({NoTree})
    /\ pc = "start"

\* the folder test left out: main() is called whatever the path
CheckPath_NoCheck ==
    /\ pc = "start"
    /\ pc' = "loop"
    /\ UNCHANGED <<fs, files, input_path, branch, fs_before, probed, calls,
                   notices, params, dirs, callvars, folder_exists, exit_code, stderr,
                   earlier>>

\* if not os.path.exists(args.folder_path): print(..., file=sys.stderr); sys.exit(1)
CheckPath ==
    /\ pc = "start"
    /\ IF ~folder_exists
       THEN /\ stderr' = Append(stderr, "Error: No such file or directory")
            /\ exit_code' = <<1>>
            /\ pc' = "exited"
       ELSE /\ pc' = "loop"
            /\ UNCHANGED <<stderr, exit_code>>
    /\ UNCHANGED <<fs, files, input_path, branch, fs_before, probed, calls,
                   notices, params, dirs, callvars, folder_exists, earlier>>

\* main() has returned and the script ends: status 0
Exit ==
    /\ pc = "returned"
    /\ pc' = "exited"
    /\ exit_code' = <<0>>
    /\ UNCHANGED <<fs, files, input_path, branch, fs_before, probed, calls,
                   notices, params, dirs, callvars, folder_exists, stderr, earlier>>

\* an exception has left main(): the interpreter prints the traceback, status 1
Abort ==
    /\ pc = "raised"
    /\ pc' = "exited"
    /\ exit_code' = <<1>>
    /\ stderr' = Append(stderr, "Traceback")
    /\ UNCHANGED <<fs, files, input_path, branch, fs_before, probed, calls,
                   notices, params, dirs, callvars, folder_exists, earlier>>

NextCli ==
    \/ CheckPath
    \/ Next
    \/ Exit
    \/ Abort

SpecCli == InitCli /\ [][NextCli]_vars

----------------------------------------------------------------------------
(* The program run again on the tree an earlier run has left, in an         *)
(* environment where ffprobe, ffmpeg and every file-system call succeed.    *)

\* contents of the single files the program is run on repeatedly, each in
\* the format its extension stands for
RunContents(p) ==
    {Media(p, IF p.ext = "mkv" THEN MKV_FORMAT ELSE MP4_FORMAT, s) :
        s \in {<<VideoStream("hevc"), AudioStream("aac", 2)>>,
               <<VideoStream("h264"), AudioStream("mp3", 2)>>,
               <<VideoStream("vp9"), AudioStream("aac", NoCount)>>,
               <<VideoStream("hevc")>>}}

RunPaths == MainPaths \cup {Path(Append(Stem, ".temp"), "mp4")}

RunTrees ==
    UNION {{[q \in {p} |-> c] : c \in RunContents(p)} :
              p \in MainPaths \cup {Path(Stem, "mov")}}
    \cup {t \in UNION {TreesOn(ps) : ps \in {s \in SUBSET RunPaths :
                                                 /\ MainPaths \subseteq s
                                                 /\ Cardinality(s) <= MaxFiles}} :
              t[Path(Stem, "mkv")].kind = "media"}

InitRuns ==
    /\ Start(RunTrees)
    /\ folder_exists = TRUE
    /\ pc = "loop"

\* the step taken is one in which nothing fails
Succeeds ==
    /\ pc' \notin {"raised", "except", "opfailed"}
    /\ pc = "probe" => probed'[input_path] = get_media_info(fs, input_path)

\* the number of the current run of the program on the tree
RunNumber == IF earlier = <<>> THEN 1 ELSE earlier[1].run + 1

\* main() called once more, with the same keep_original and some target
Rerun ==
    /\ pc = "returned"
    /\ RunNumber < MaxRuns
    /\ earlier' = <<[run |-> RunNumber,
                     fs0 |-> fs0,
                     video_codec_choice |-> video_codec_choice,
                     container_choice |-> container_choice,
                     probed |-> probed,
                     calls |-> calls,
                     notices |-> notices]>>
    /\ fs0' = fs
    /\ video_codec_choice' \in VideoCodecChoices
    /\ container_choice' \in ContainerChoices
    /\ files' = Listing(fs, Root)
    /\ dirs' = SubDirs(fs)
    /\ input_path' = NoPath
    /\ pc' = "loop"
    /\ branch' = "none"
    /\ fs_before' = NoTree
    /\ probed' = [p \in DOMAIN fs |-> NotProbed]
    /\ calls' = [p \in DOMAIN fs |-> <<>>]
    /\ notices' = [p \in DOMAIN fs |-> <<>>]
    /\ UNCHANGED <<fs, keep_original, folder_exists, exit_code, stderr, callvars>>

NextRuns ==
    \/ Rerun
    \/ NextFile
    \/ Return
    \/ Probe /\ Succeeds
    \/ RemoveLeftover /\ Succeeds
    \/ Execute /\ Succeeds
    \/ MakeDirs /\ Succeeds
    \/ RemoveOriginal /\ Succeeds
    \/ Promote /\ Succeeds

SpecRuns == InitRuns /\ [][NextRuns]_vars

-----------------------------------------------------------------------------
(* The helper functions get_media_info, transcode_file and remux_file,     *)
(* each called on its own against an external tool that may be missing,    *)
(* exit with any status and print anything.                                *)

\* a byte sequence the text decoding of a captured stream rejects
BadByte == "\\xff"

\* whitespace between JSON tokens, before and after newline translation
CRLF == "\\r\\n"

LF == "\\n"

FormatMember == "\"format\": {}"

StreamsMember == "\"streams\": []"

\* what ffprobe may print
ProbeOutputs ==
    { <<>>,
      <<"{">>,
      <<"{", "}">>,
      <<"null", LF>>,
      <<"{", FormatMember, "}", LF>>,
      <<"{", FormatMember, ",", StreamsMember, "}", CRLF>>,
      <<"{", FormatMember, ",", "}">>,
      <<"{", FormatMember, StreamsMember, "}">>,
      <<"{", FormatMember, "}", "{", "}">>,
      <<"{", BadByte, "}">> }

\* what ffmpeg -codecs may print
CodecsOutputs ==
    { <<>>,
      <<"libx265", LF>>,
      <<"libx265", CRLF, "hevc_videotoolbox", CRLF>>,
      <<"h264_videotoolbox", LF>>,
      <<"h264_videotoolbox", LF, "hevc_videotoolbox", LF>>,
      <<"libx264", LF, "libx265", LF>> }

ReturnCodes == {0, 1, -9}

\* a line of output of the child with its terminator
OutputLine(text, end) == [text |-> text, end |-> end]

OutputLines ==
    { OutputLine("frame=1", "\\r"), OutputLine("done", LF),
      OutputLine(BadByte, LF) }

\* the outputs of at most MaxLines lines
LineSeqs == UNION { [1..n -> OutputLines] : n \in 0..MaxLines }

Raises(e) == [kind |-> "raise", none |-> FALSE, value |-> <<e>>]

Returns(v) == [kind |-> "return", none |-> FALSE, value |-> v]

ReturnsNone == [kind |-> "return", none |-> TRUE, value |-> <<>>]

ReturnsBool(b) == Returns(<<IF b THEN "True" ELSE "False">>)

\* text=True: the captured bytes are decoded strictly, "\r\n" becomes "\n"
Decodable(bytes) == \A i \in DOMAIN bytes : bytes[i] # BadByte

decode(bytes) == [i \in DOMAIN bytes |-> IF bytes[i] = CRLF THEN LF ELSE bytes[i]]

\* subprocess.run(command, capture_output=True, text=True, check=True)
subprocess_run(t) ==
    IF t.binary = "missing" THEN Raises("FileNotFoundError")
    ELSE IF t.binary = "not executable" THEN Raises("PermissionError")
    ELSE IF ~Decodable(t.run_stdout) THEN Raises("UnicodeDecodeError")
    ELSE IF t.run_returncode # 0 THEN Raises("CalledProcessError")
    ELSE [kind |-> "completed", none |-> FALSE, value |-> decode(t.run_stdout)]

IsMember(token) == token \in {FormatMember, StreamsMember}

IsText(token) == token # LF

RECURSIVE Members(_)
\* the tokens between the braces are members separated by commas
Members(s) ==
    IF s = <<>> THEN FALSE
    ELSE IF ~IsMember(s[1]) THEN FALSE
    ELSE IF Len(s) = 1 THEN TRUE
    ELSE s[2] = "," /\ Members(SubSeq(s, 3, Len(s)))

\* json.loads(text): the members of the object, None for null
json_loads(text) ==
    LET t == SelectSeq(text, IsText)
    IN  IF t = <<"null">> THEN ReturnsNone
        ELSE IF /\ Len(t) >= 2
                /\ t[1] = "{"
                /\ t[Len(t)] = "}"
                /\ (Len(t) = 2 \/ Members(SubSeq(t, 2, Len(t) - 1)))
             THEN Returns(SelectSeq(t, IsMember))
        ELSE Raises("JSONDecodeError")

ProbeCommand ==
    <<"ffprobe", "-v", "quiet", "-print_format", "json", "-show_format",
      "-show_streams", "file_path">>

TranscodeCommand(ffmpeg_video_codec) ==
    <<"ffmpeg", "-i", "input_path", "-c:v", ffmpeg_video_codec,
      "-c:a", "aac", "-ac", "2", "-y", "output_path">>

RemuxCommand ==
    <<"ffmpeg", "-i", "input_path", "-c", "copy", "-y", "output_path">>

\* the variables of main() and of the command line, idle during a call
mainvars ==
    <<fs, fs0, keep_original, video_codec_choice, container_choice, files,
      input_path, pc, branch, fs_before, probed, calls, notices, dirs,
      folder_exists, exit_code, stderr, earlier>>

\* one call of one helper function, the tool behaving in any way
InitCalls ==
    /\ fs = NoTree
    /\ fs0 = NoTree
    /\ keep_original = FALSE
    /\ container_choice = "mp4"
    /\ files = {}
    /\ dirs = {}
    /\ input_path = NoPath
    /\ pc = "call"
    /\ branch = "none"
    /\ fs_before = NoTree
    /\ probed = NoTree
    /\ calls = NoTree
    /\ notices = NoTree
    /\ folder_exists = TRUE
    /\ exit_code = <<>>
    /\ stderr = <<>>
    /\ earlier = <<>>
    /\ fn \in {"get_media_info", "transcode_file", "remux_file"}
    /\ at = "start"
    /\ \E binary \in {"ok", "missing", "not executable"} :
        \/ /\ fn = "get_media_info"
           /\ video_codec_choice = "h.265"
           /\ \E rc \in ReturnCodes, out \in ProbeOutputs :
                tool = Tool(binary, rc, out, 0, <<>>)
        \/ /\ fn = "transcode_file"
           /\ video_codec_choice \in VideoCodecChoices
           /\ \E rc1, rc2 \in ReturnCodes, out \in CodecsOutputs,
                 lines \in LineSeqs :
                tool = Tool(binary, rc1, out, rc2, lines)
        \/ /\ fn = "remux_file"
           /\ video_codec_choice = "h.265"
           /\ \E rc \in ReturnCodes, lines \in LineSeqs :
                tool = Tool(binary, 0, <<>>, rc, lines)
    /\ captured = <<>>
    /\ command = <<>>
    /\ child = <<>>
    /\ pipe = <<>>
    /\ line = <<>>
    /\ sys_stdout = <<>>
    /\ result = NoResult

\* get_media_info: the command and subprocess.run; the failures caught
RunProbe ==
    /\ fn = "get_media_info" /\ at = "start"
    /\ command' = ProbeCommand
    /\ LET r == subprocess_run(tool)
       IN  IF r.kind = "completed"
           THEN /\ captured' = <<r.value>>
                /\ at' = "loads"
                /\ UNCHANGED result
           ELSE /\ result' = IF r.value[1] \in {"CalledProcessError",
                                                "FileNotFoundError"}
                             THEN ReturnsNone
                             ELSE r
                /\ at' = "done"
                /\ UNCHANGED captured
    /\ UNCHANGED <<fn, tool, child, pipe, line, sys_stdout, mainvars>>

\* get_media_info: json.loads(result.stdout)
LoadsProbe ==
    /\ fn = "get_media_info" /\ at = "loads"
    /\ LET r == json_loads(captured[1])
       IN  result' = IF r = Raises("JSONDecodeError") THEN ReturnsNone ELSE r
    /\ at' = "done"
    /\ UNCHANGED <<fn, tool, captured, command, child, pipe, line, sys_stdout,
                   mainvars>>

is_videotoolbox_available_NoExcept(codec_type, t) ==
    LET r == subprocess_run(t)
        Listed(name) == \E i \in DOMAIN r.value : r.value[i] = name
    IN  IF r.kind = "completed"
        THEN IF codec_type = "hevc" THEN ReturnsBool(Listed("hevc_videotoolbox"))
             ELSE IF codec_type = "h264"
                  THEN ReturnsBool(Listed("h264_videotoolbox"))
             ELSE ReturnsBool(FALSE)
        ELSE r

\* is_videotoolbox_available(codec_type) against the tool t
is_videotoolbox_available(codec_type, t) ==
    LET r == subprocess_run(t)
        Listed(name) == \E i \in DOMAIN r.value : r.value[i] = name
    IN  IF r.kind = "completed"
        THEN IF codec_type = "hevc" THEN ReturnsBool(Listed("hevc_videotoolbox"))
             ELSE IF codec_type = "h264"
                  THEN ReturnsBool(Listed("h264_videotoolbox"))
             ELSE ReturnsBool(FALSE)
        ELSE IF r.value[1] \in {"CalledProcessError", "FileNotFoundError"}
             THEN ReturnsBool(FALSE)
        ELSE r

\* transcode_file: the encoder and the command
ChooseEncoder ==
    /\ fn = "transcode_file" /\ at = "start"
    /\ LET available ==
               IF video_codec_choice = "h.265"
               THEN is_videotoolbox_available("hevc", tool)
               ELSE IF video_codec_choice = "h.264"
                    THEN is_videotoolbox_available("h264", tool)
               ELSE ReturnsBool(FALSE)
           ffmpeg_video_codec ==
               IF video_codec_choice = "h.265"
               THEN IF available = ReturnsBool(TRUE)
                    THEN "hevc_videotoolbox" ELSE "libx265"
               ELSE IF video_codec_choice = "h.264"
                    THEN IF available = ReturnsBool(TRUE)
                         THEN "h264_videotoolbox" ELSE "libx264"
               ELSE IF video_codec_choice = "vp9" THEN "libvpx-vp9"
               ELSE ""
       IN  IF available.kind = "raise"
           THEN /\ result' = available
                /\ at' = "done"
                /\ UNCHANGED command
           ELSE /\ command' = TranscodeCommand(ffmpeg_video_codec)
                /\ at' = "popen"
                /\ UNCHANGED result
    /\ UNCHANGED <<fn, tool, captured, child, pipe, line, sys_stdout, mainvars>>

\* remux_file: the command
BuildRemux ==
    /\ fn = "remux_file" /\ at = "start"
    /\ command' = RemuxCommand
    /\ at' = "popen"
    /\ UNCHANGED <<fn, tool, captured, child, pipe, line, sys_stdout, result,
                   mainvars>>

\* subprocess.Popen(command, stdout=PIPE, stderr=STDOUT,
\* universal_newlines=True)
Popen ==
    /\ fn \in {"transcode_file", "remux_file"} /\ at = "popen"
    /\ IF tool.binary = "ok"
       THEN /\ child' = tool.lines
            /\ at' = "read"
            /\ UNCHANGED result
       ELSE /\ result' = IF tool.binary = "missing"
                         THEN Raises("FileNotFoundError")
                         ELSE Raises("PermissionError")
            /\ at' = "done"
            /\ UNCHANGED child
    /\ UNCHANGED <<fn, tool, captured, command, pipe, line, sys_stdout,
                   mainvars>>

\* the child process writes its next line into the pipe
ChildWrites ==
    /\ at \in {"read", "write"}
    /\ child # <<>>
    /\ pipe' = Append(pipe, Head(child))
    /\ child' = Tail(child)
    /\ UNCHANGED <<fn, at, tool, captured, command, line, sys_stdout, result,
                   mainvars>>

\* for line in process.stdout: the next line is read and decoded
ReadLine ==
    /\ at = "read"
    /\ pipe # <<>>
    /\ pipe' = Tail(pipe)
    /\ IF Head(pipe).text = BadByte
       THEN /\ result' = Raises("UnicodeDecodeError")
            /\ at' = "done"
            /\ UNCHANGED line
       ELSE /\ line' = <<OutputLine(Head(pipe).text, LF)>>
            /\ at' = "write"
            /\ UNCHANGED result
    /\ UNCHANGED <<fn, tool, captured, command, child, sys_stdout, mainvars>>

\* sys.stdout.write(line); sys.stdout.flush()
WriteLine ==
    /\ at = "write"
    /\ sys_stdout' = Append(sys_stdout, line[1])
    /\ line' = <<>>
    /\ at' = "read"
    /\ UNCHANGED <<fn, tool, captured, command, child, pipe, result, mainvars>>

\* the child has closed its output and nothing is left in the pipe
EndOfOutput ==
    /\ at = "read"
    /\ pipe = <<>>
    /\ child = <<>>
    /\ at' = "wait"
    /\ UNCHANGED <<fn, tool, captured, command, child, pipe, line, sys_stdout,
                   result, mainvars>>

\* process.wait(); return process.returncode == 0
Wait ==
    /\ at = "wait"
    /\ result' = ReturnsBool(tool.returncode = 0)
    /\ at' = "done"
    /\ UNCHANGED <<fn, tool, captured, command, child, pipe, line, sys_stdout,
                   mainvars>>

NextCalls ==
    \/ RunProbe
    \/ LoadsProbe
    \/ ChooseEncoder
    \/ BuildRemux
    \/ Popen
    \/ ChildWrites
    \/ ReadLine
    \/ WriteLine
    \/ EndOfOutput
    \/ Wait

SpecCalls == InitCalls /\ [][NextCalls]_vars

----------------------------------------------------------------------------
(* Vocabulary of the properties, stated on what the probe reported rather  *)
(* than through the operators main() is modelled with.                     *)

\* main() has finished the loop iteration of p and moved on
Handled(p) ==
    p \in DOMAIN fs0 /\ p \notin files /\ p.dir \notin dirs /\ p # input_path

StreamsOfType(mi, t) == SelectSeq(mi.streams, LAMBDA s : s.codec_type = t)

Candidate(mi) == ~mi.none /\ StreamsOfType(mi, "video") # <<>>

CanonicalCodec(choice) ==
    CASE choice = "h.265" -> "hevc"
      [] choice = "h.264" -> "h264"
      [] choice = "vp9" -> "vp9"

CanonicalAlias(container) ==
    CASE container = "mp4" -> <<"mov", "mp4", "m4a", "3gp", "3g2", "mj2">>
      [] container = "mkv" -> <<"matroska", "webm">>

VideoConforms(mi) ==
    Head(StreamsOfType(mi, "video")).codec_name = CanonicalCodec(video_codec_choice)

AudioConforms(mi) ==
    LET au == StreamsOfType(mi, "audio")
    IN  au # <<>> /\ Head(au).codec_name = "aac" /\ Head(au).channels = 2

ContainerConforms(mi) == mi.format_name = CanonicalAlias(container_choice)

OperationCall(op, p) ==
    [op |-> op, input |-> p, output |-> TempPath(p, container_choice)]

\* main() has got past the call of the external operation for p
PastExecute(p) ==
    \/ Handled(p)
    \/ p = input_path /\ pc \in {"makedirs", "rmorig", "move", "except", "opfailed"}

----------------------------------------------------------------------------
(* C1: a candidate whose video codec, audio (aac, 2 channels) and container *)
(* all match the target is skipped: no external operation is started for   *)
(* it, the only thing main() does is print the Skipping line, and the step *)
(* that decides it leaves the tree exactly as it was.                      *)

C1_Conforming(mi) ==
    Candidate(mi) /\ VideoConforms(mi) /\ AudioConforms(mi) /\ ContainerConforms(mi)

C1_SkipState ==
    \A p \in DOMAIN probed :
        C1_Conforming(probed[p]) =>
            /\ calls[p] = <<>>
            /\ notices[p] = <<Notice("Skipping", p)>>
            /\ Handled(p)

C1_SkipStep ==
    (pc = "probe" /\ C1_Conforming(probed'[input_path])) => fs' = fs

C1_SkipConforming == [](C1_SkipState) /\ [][C1_SkipStep]_vars

C1_Witness ==
    /\ pc = "returned"
    /\ video_codec_choice = "vp9"
    /\ \E p \in DOMAIN probed : C1_Conforming(probed[p]) /\ fs = fs0

----------------------------------------------------------------------------
(* C2: a candidate whose video codec and audio match but whose container    *)
(* does not is remuxed: main() announces the remux, never starts            *)
(* transcode_file for it, and once the operation has been started the calls *)
(* made for the file are exactly one remux_file writing to its temp path.   *)

C2_RemuxCase(mi) ==
    Candidate(mi) /\ VideoConforms(mi) /\ AudioConforms(mi) /\ ~ContainerConforms(mi)

C2_RemuxOnly ==
    \A p \in DOMAIN probed :
        C2_RemuxCase(probed[p]) =>
            /\ calls[p] \in {<<>>, <<OperationCall("remux_file", p)>>}
            /\ PastExecute(p) => calls[p] # <<>>
            /\ Head(notices[p]) = Notice("Remuxing", p)

C2_Witness ==
    \E p \in DOMAIN probed :
        /\ C2_RemuxCase(probed[p])
        /\ Handled(p)
        /\ p.ext = container_choice
        /\ calls[p] = <<OperationCall("remux_file", p)>>

----------------------------------------------------------------------------
(* C3: a candidate whose video codec differs from the target's canonical    *)
(* name, or whose audio is not aac with 2 channels, is transcoded whatever  *)
(* its container and extension: remux_file is never started for it, and     *)
(* once the operation has been started the calls made for the file are      *)
(* exactly one transcode_file writing to its temp path.                     *)

C3_TranscodeCase(mi) ==
    Candidate(mi) /\ (~VideoConforms(mi) \/ ~AudioConforms(mi))

C3_TranscodeOnly ==
    \A p \in DOMAIN probed :
        C3_TranscodeCase(probed[p]) =>
            /\ calls[p] \in {<<>>, <<OperationCall("transcode_file", p)>>}
            /\ PastExecute(p) => calls[p] # <<>>

C3_Witness ==
    \E p \in DOMAIN probed :
        /\ C3_TranscodeCase(probed[p])
        /\ VideoConforms(probed[p])
        /\ ContainerConforms(probed[p])
        /\ Handled(p)
        /\ p.ext # container_choice
        /\ calls[p] = <<OperationCall("transcode_file", p)>>

----------------------------------------------------------------------------
(* Outcomes of a finished iteration, read off the lines main() printed *)

LastNotice(p) == notices[p][Len(notices[p])]

Succeeded(p) ==
    Handled(p) /\ notices[p] # <<>> /\ LastNotice(p).text = "Successfully"

OperationFailed(p) ==
    Handled(p) /\ notices[p] # <<>> /\ LastNotice(p).text = "Failed to"

\* p holds the same file in both trees, or is absent from both
SameAt(t1, t2, p) ==
    /\ Exists(t1, p) <=> Exists(t2, p)
    /\ Exists(t1, p) => t1[p] = t2[p]

----------------------------------------------------------------------------
(* C4: with keep-original off, after a successful operation the converted   *)
(* file is at {stem}.{target_container}, and nothing is left at the input   *)
(* path when its extension differs from the target container.               *)

C4_ConvertedAtOutputPath ==
    ~keep_original =>
        \A p \in DOMAIN fs0 :
            Succeeded(p) =>
                /\ Exists(fs, OutputPath(p, container_choice))
                /\ p.ext # container_choice => ~Exists(fs, p)

----------------------------------------------------------------------------
(* C5: with keep-original on, after a successful operation the output is    *)
(* the sibling {stem}_remuxed.{target_container} when the file was remuxed  *)
(* and {stem}_re-encoded.{target_container} when it was transcoded, for     *)
(* every input extension.                                                   *)

C5_ActionOf(p) ==
    IF calls[p][1].op = "remux_file" THEN "_remuxed" ELSE "_re-encoded"

C5_SuffixedSibling ==
    keep_original =>
        \A p \in DOMAIN fs0 :
            Succeeded(p) =>
                Exists(fs, SuffixedPath(p, C5_ActionOf(p), container_choice))

----------------------------------------------------------------------------
(* C6 as stated: with keep-original on, every candidate that has been       *)
(* handled is still at its path with the content it had when main() began.  *)

C6_InputKeptForGood ==
    keep_original =>
        \A p \in DOMAIN fs0 :
            Handled(p) /\ Candidate(probed[p]) => Exists(fs, p) /\ fs[p] = fs0[p]

(* C6 amended: with keep-original on, the file being handled stays at its   *)
(* path with the content it had when its iteration began, for every         *)
(* decision and outcome, and a step removes or changes an existing file     *)
(* only at the temp path or the suffixed output path of the file being      *)
(* handled, neither of which is that file's own path.                       *)

C6_OwnInputState ==
    (keep_original /\ input_path # NoPath /\ Candidate(probed[input_path])) =>
        Exists(fs, input_path) /\ fs[input_path] = fs_before[input_path]

C6_OnlyTempOrOutputStep ==
    (keep_original /\ fs' # fs) =>
        \A p \in DOMAIN fs :
            (~Exists(fs', p) \/ fs'[p] # fs[p]) =>
                p # input_path /\ p \in {temp_output_path, final_path}

C6_InputKeptWhileHandled ==
    [](C6_OwnInputState) /\ [][C6_OnlyTempOrOutputStep]_vars

C6_Witness ==
    /\ keep_original
    /\ pc = "returned"
    /\ \E p \in DOMAIN fs0 :
        /\ Succeeded(p)
        /\ fs[p] = fs0[p]
        /\ \E q \in DOMAIN fs0 : ~Exists(fs, q)

----------------------------------------------------------------------------
(* C7: when the external operation exits non-zero, the failure handler      *)
(* leaves the input file as it was when the iteration began, leaves the     *)
(* final path as it was, and when main() moves on no file is at the temp    *)
(* path; with keep-original on and off.                                     *)

C7_FailureStep ==
    pc = "opfailed" =>
        /\ Exists(fs', input_path)
        /\ fs'[input_path] = fs_before[input_path]
        /\ SameAt(fs', fs_before, final_path)
        /\ pc' = "loop" => ~Exists(fs', temp_output_path)

C7_OperationFailureCleanedUp == [][C7_FailureStep]_vars

C7_Witness ==
    /\ pc = "returned"
    /\ ~keep_original
    /\ \E p \in DOMAIN fs0 :
        /\ OperationFailed(p)
        /\ Exists(fs0, TempPath(p, container_choice))
        /\ ~Exists(fs, TempPath(p, container_choice))
        /\ fs[p] = fs0[p]

----------------------------------------------------------------------------
(* C8: a file whose processing fails after classification (non-zero exit,   *)
(* or an error in makedirs, in deleting the original or in the move) is     *)
(* left in its pre-attempt state when main() moves on: the original is at   *)
(* the input path untouched and no output exists.                           *)

C8_FailedStep ==
    (pc \in {"opfailed", "except"} /\ pc' = "loop") =>
        /\ Exists(fs', input_path)
        /\ fs'[input_path] = fs_before[input_path]
        /\ SameAt(fs', fs_before, final_path)
        /\ ~Exists(fs', temp_output_path)

C8_FailedFileInPreAttemptState == [][C8_FailedStep]_vars

----------------------------------------------------------------------------
(* C9: no failure while handling a file stops the scan: main() is never     *)
(* left by an exception.                                                    *)

C9_ScanNeverAborted == pc # "raised"

----------------------------------------------------------------------------
(* C10: a file whose probe fails or reports no video stream is passed over: *)
(* nothing is started or printed for it, and the step that finds it out     *)
(* leaves the whole tree (the file, its temp path, any output path) as it   *)
(* was and goes on with the same remaining files without an exception.      *)

C10_NonCandidateState ==
    \A p \in DOMAIN probed :
        (Handled(p) /\ ~Candidate(probed[p])) => calls[p] = <<>> /\ notices[p] = <<>>

C10_NonCandidateStep ==
    (pc = "probe" /\ ~Candidate(probed'[input_path])) =>
        fs' = fs /\ pc' = "loop" /\ files' = files

----------------------------------------------------------------------------
(* C11: when the probe of a file with a video extension fails, main() has   *)
(* written, by the time it moves on, a notice on the error stream that      *)
(* names the file and is not the Skipping notice.                           *)

C11_ProbeFailureNoticed ==
    \A p \in DOMAIN probed :
        (Handled(p) /\ IsVideoFile(p) /\ probed[p].none) =>
            \E i \in DOMAIN notices[p] :
                /\ notices[p][i].stream = "stderr"
                /\ notices[p][i].path = p
                /\ notices[p][i].text # "Skipping"

----------------------------------------------------------------------------
(* C12: whenever main() is about to start remux_file or transcode_file for  *)
(* a file, in the remux, the in-place and the general block alike, no file  *)
(* is at that file's temp path {stem}.temp.{container}: a leftover has been *)
(* removed before.                                                          *)

C12_TempPathFree == pc = "exec" => ~Exists(fs, temp_output_path)

C12_Witness ==
    /\ pc = "exec"
    /\ branch = "general"
    /\ Exists(fs_before, temp_output_path)

----------------------------------------------------------------------------
(* C13: during promotion the original is deleted exactly when keep-original *)
(* is off and the input path differs from the final path                    *)
(* {stem}.{container}; when the two are equal no separate step deletes the  *)
(* original.                                                                *)

C13_DeletedStep ==
    (pc = "rmorig" /\ pc' = "move") =>
        (~Exists(fs', input_path) <=>
            (~keep_original /\ input_path # OutputPath(input_path, container_choice)))

C13_DeletedOnlyIfPathsDiffer == [][C13_DeletedStep]_vars

(* C13 amended: during promotion the original is deleted exactly when       *)
(* keep-original is off, whether or not the input path equals the final     *)
(* path; the deletion is a step of its own that removes nothing else and    *)
(* comes before the move, so that the move starts with the original absent  *)
(* when keep-original is off and present when it is on.                     *)

C13_BeforeMoveState ==
    pc = "move" => (Exists(fs, input_path) <=> keep_original)

C13_RemoveOriginalStep ==
    /\ (pc = "rmorig" /\ pc' = "move") =>
          /\ ~Exists(fs', input_path) <=> ~keep_original
          /\ fs' # fs => fs' = Remove(fs, input_path)
    /\ (input_path # NoPath /\ Exists(fs, input_path) /\ ~Exists(fs', input_path)) =>
          pc = "rmorig" /\ ~keep_original

C13_DeletedWhenKeepOff ==
    [](C13_BeforeMoveState) /\ [][C13_RemoveOriginalStep]_vars

C13_Witness ==
    /\ pc = "move"
    /\ ~keep_original
    /\ branch = "inplace"
    /\ input_path = OutputPath(input_path, container_choice)
    /\ Exists(fs_before, input_path)
    /\ ~Exists(fs, input_path)

----------------------------------------------------------------------------
(* C17: when the external operation fails or the promotion raises, main()   *)
(* has written, by the time it moves on, a failure notice on the error      *)
(* stream that names the path of the file.                                  *)

C17_FailureOnErrorStream ==
    \A p \in DOMAIN notices :
        (Handled(p) /\ notices[p] # <<>>
            /\ LastNotice(p).text \in {"Failed to", "Error during file operation"}) =>
                LastNotice(p).stream = "stderr" /\ LastNotice(p).path = p

----------------------------------------------------------------------------
(* C19: the container is matched by membership: a candidate whose video     *)
(* codec and audio conform is skipped (its container taken as matching)     *)
(* exactly when the format name the probe reports contains, or equals, the  *)
(* canonical alias string of the target container.                          *)

C19_ContainsAlias(format_name, alias) ==
    \E i \in 1..Len(format_name) :
        /\ i + Len(alias) - 1 <= Len(format_name)
        /\ SubSeq(format_name, i, i + Len(alias) - 1) = alias

C19_MatchByMembership ==
    \A p \in DOMAIN probed :
        (/\ Handled(p)
         /\ Candidate(probed[p])
         /\ VideoConforms(probed[p])
         /\ AudioConforms(probed[p])) =>
            (C19_ContainsAlias(probed[p].format_name,
                               CanonicalAlias(container_choice))
                <=> notices[p] = <<Notice("Skipping", p)>>)

----------------------------------------------------------------------------
(* C20: a candidate that has no audio stream, or whose first audio stream   *)
(* carries no channel count, never matches the audio target: it is never    *)
(* skipped or remuxed, and the one operation started for it is              *)
(* transcode_file, whatever its video codec and container.                  *)

C20_NoAudioMatch(mi) ==
    /\ Candidate(mi)
    /\ \/ StreamsOfType(mi, "audio") = <<>>
       \/ Head(StreamsOfType(mi, "audio")).channels = NoCount

C20_AlwaysTranscoded ==
    \A p \in DOMAIN probed :
        C20_NoAudioMatch(probed[p]) =>
            /\ \A i \in DOMAIN notices[p] :
                   notices[p][i].text \notin {"Skipping", "Remuxing"}
            /\ \A i \in DOMAIN calls[p] : calls[p][i].op = "transcode_file"
            /\ PastExecute(p) => calls[p] = <<OperationCall("transcode_file", p)>>

C20_Witness ==
    /\ pc = "returned"
    /\ \E p \in DOMAIN probed :
        /\ C20_NoAudioMatch(probed[p])
        /\ StreamsOfType(probed[p], "audio") # <<>>
        /\ Head(StreamsOfType(probed[p], "audio")).codec_name = "aac"
        /\ VideoConforms(probed[p])
        /\ ContainerConforms(probed[p])
        /\ Succeeded(p)

----------------------------------------------------------------------------
(* C18: main() probes exactly the files under the root, at any depth, whose *)
(* extension is in the video-extension list; a file with another extension  *)
(* is never probed, never the input or output of an external operation,     *)
(* and stays in place unchanged; every operation started for a file writes  *)
(* into that file's own directory and so does every step that changes the   *)
(* tree.                                                                    *)

C18_InList(p) ==
    p.ext \in {"mkv", "mp4", "avi", "mov", "wmv", "flv", "webm", "m2ts"}

C18_ScanState ==
    /\ pc = "returned" =>
          \A p \in DOMAIN fs0 : probed[p] # NotProbed <=> C18_InList(p)
    /\ \A p \in DOMAIN fs0 :
          /\ ~C18_InList(p) =>
                /\ probed[p] = NotProbed
                /\ calls[p] = <<>>
                /\ Exists(fs, p) /\ fs[p] = fs0[p]
                /\ \A q \in DOMAIN calls : \A i \in DOMAIN calls[q] :
                       calls[q][i].input # p /\ calls[q][i].output # p
          /\ \A i \in DOMAIN calls[p] : calls[p][i].output.dir = p.dir
          /\ \A i \in DOMAIN notices[p] :
                notices[p][i].text = "Successfully" => notices[p][i].path.dir = p.dir

C18_OwnDirectoryStep ==
    \A q \in DOMAIN fs \cup DOMAIN fs' :
        ~SameAt(fs', fs, q) => q.dir = input_path.dir /\ C18_InList(q)

C18_ScansVideoFilesAtAnyDepth ==
    [](C18_ScanState) /\ [][C18_OwnDirectoryStep]_vars

C18_Witness ==
    /\ pc = "returned"
    /\ \E p, q \in DOMAIN fs0 :
        /\ p.dir = SubDir /\ Succeeded(p)
        /\ LastNotice(p).path.dir = SubDir
        /\ Exists(fs, LastNotice(p).path)
        /\ q.dir = SubDir /\ ~C18_InList(q)
        /\ probed[q] = NotProbed

----------------------------------------------------------------------------
(* C16: run on a folder that does not exist, the program writes a           *)
(* diagnostic to the error stream and exits with status 1 without entering  *)
(* main(): no file is probed, converted, deleted or moved.  In every other  *)
(* run in which main() returns, per-file failures included, the status is   *)
(* 0, and status 1 without a traceback is only ever that of a missing       *)
(* folder.                                                                  *)

C16_ExitState ==
    /\ ~folder_exists =>
          /\ pc \in {"start", "exited"}
          /\ fs = fs0
          /\ \A p \in DOMAIN probed : probed[p] = NotProbed /\ calls[p] = <<>>
          /\ pc = "exited" =>
                /\ exit_code = <<1>>
                /\ stderr = <<"Error: No such file or directory">>
    /\ folder_exists =>
          /\ "Error: No such file or directory" \notin {stderr[i] : i \in DOMAIN stderr}
          /\ (pc = "exited" /\ stderr = <<>>) => exit_code = <<0>>
    /\ pc # "exited" => exit_code = <<>>

C16_ExitStep == pc = "returned" => exit_code' = <<0>>

C16_ExitCode == [](C16_ExitState) /\ [][C16_ExitStep]_vars

C16_Witness ==
    /\ pc = "exited"
    /\ exit_code = <<0>>
    /\ \E p, q \in DOMAIN fs0 : OperationFailed(p) /\ Succeeded(q)

----------------------------------------------------------------------------
(* Vocabulary for runs one after the other *)

PreviousRun == earlier[1]

SameTarget ==
    /\ PreviousRun.video_codec_choice = video_codec_choice
    /\ PreviousRun.container_choice = container_choice

\* the paths a run reported a successful promotion to
Produced(run) ==
    UNION {{run.notices[p][i].path :
               i \in {j \in DOMAIN run.notices[p] :
                         run.notices[p][j].text = "Successfully"}} :
           p \in DOMAIN run.notices}

----------------------------------------------------------------------------
(* C14: when main() is run twice on the same tree with the same target and  *)
(* keep-original setting and every operation of the first run succeeded,    *)
(* every file the first run produced is skipped by the second run, and the  *)
(* second run starts no operation and leaves the tree as it found it.       *)

C14_Idempotent ==
    (earlier # <<>> /\ SameTarget /\ pc = "returned") =>
        /\ \A q \in Produced(PreviousRun) \cap DOMAIN fs0 :
               notices[q] = <<Notice("Skipping", q)>>
        /\ fs = fs0
        /\ \A p \in DOMAIN calls : calls[p] = <<>>

(* C14 amended: the above for trees in which every candidate of the first   *)
(* run has an audio stream: every file the first run produced is skipped by *)
(* the second run, with keep-original on and off; with keep-original off no *)
(* step of the second run starts an operation or changes the tree.          *)

C14_AllWithAudio(run) ==
    \A p \in DOMAIN run.probed :
        Candidate(run.probed[p]) => StreamsOfType(run.probed[p], "audio") # <<>>

C14_ProducedSkippedState ==
    (earlier # <<>> /\ SameTarget /\ C14_AllWithAudio(PreviousRun)
        /\ pc = "returned") =>
            \A q \in Produced(PreviousRun) \cap DOMAIN fs0 :
                notices[q] = <<Notice("Skipping", q)>>

C14_NothingChangedStep ==
    (earlier # <<>> /\ SameTarget /\ C14_AllWithAudio(PreviousRun)
        /\ ~keep_original /\ pc # "returned") =>
            /\ fs' = fs
            /\ calls' = calls
            /\ \A p \in DOMAIN calls : calls[p] = <<>>

C14_IdempotentWithAudio ==
    [](C14_ProducedSkippedState) /\ [][C14_NothingChangedStep]_vars

C14_Witness ==
    /\ pc = "returned"
    /\ earlier # <<>>
    /\ SameTarget
    /\ ~keep_original
    /\ C14_AllWithAudio(PreviousRun)
    /\ \E p, q \in Produced(PreviousRun) \cap DOMAIN fs0 :
        /\ PreviousRun.calls[p] = <<OperationCall("transcode_file", p)>>
        /\ PreviousRun.calls[q] = <<OperationCall("remux_file", q)>>
        /\ notices[p] = <<Notice("Skipping", p)>>
        /\ notices[q] = <<Notice("Skipping", q)>>

----------------------------------------------------------------------------
(* C15: a file that conforms to target A, transcoded by a run with another  *)
(* target B and then handled by a run with target A (keep-original off,     *)
(* everything succeeding), ends as the single file {stem}.{container of A}; *)
(* what the probe reports for it conforms to A in video codec, audio and    *)
(* container, and no file of target B is left.                              *)

C15_RoundTrip ==
    (/\ earlier # <<>>
     /\ pc = "returned"
     /\ ~keep_original
     /\ ~SameTarget
     /\ Cardinality(DOMAIN PreviousRun.fs0) = 1) =>
        \A p \in DOMAIN PreviousRun.fs0 :
            (/\ C1_Conforming(PreviousRun.probed[p])
             /\ PreviousRun.calls[p] # <<>>
             /\ PreviousRun.calls[p][1].op = "transcode_file") =>
                LET o == OutputPath(p, container_choice)
                IN  /\ DOMAIN fs = {o}
                    /\ C1_Conforming(get_media_info(fs, o))

----------------------------------------------------------------------------
(* C21: when a leftover file is at the temp path and removing it fails,     *)
(* the failure is fatal for this file only: a notice is printed, no         *)
(* external operation is started for the file, the tree stays as it is and  *)
(* main() goes on to the next file.                                         *)

C21_RemovalFailedStep ==
    (pc = "rmtemp" /\ Exists(fs, temp_output_path) /\ fs' = fs) =>
        /\ pc' = "loop"
        /\ calls' = calls
        /\ Len(notices'[input_path]) > Len(notices[input_path])

C21_LeftoverRemovalFailureSkipsFile == [][C21_RemovalFailedStep]_vars

----------------------------------------------------------------------------
(* C22: when the operation or the promotion has failed and removing the     *)
(* temp file fails in turn, the removal failure is not propagated: main()   *)
(* goes on to the next file.                                                *)

C22_CleanupFailedStep ==
    (pc \in {"opfailed", "except"} /\ Exists(fs, temp_output_path) /\ fs' = fs) =>
        pc' = "loop"

C22_CleanupFailureNotPropagated == [][C22_CleanupFailedStep]_vars

----------------------------------------------------------------------------
(* C23: when deleting the original fails during promotion (keep-original    *)
(* off), the temp file is not moved to the final path, it is left at the    *)
(* temp path, the original remains and main() goes on to the next file.     *)

C23_DeleteFailed ==
    /\ pc = "except"
    /\ ~keep_original
    /\ Exists(fs, input_path)
    /\ Exists(fs, temp_output_path)

C23_TempLeftStep ==
    /\ (pc = "rmorig" /\ pc' = "except") => fs' = fs /\ C23_DeleteFailed'
    /\ C23_DeleteFailed =>
          /\ pc' = "loop"
          /\ Exists(fs', temp_output_path)
          /\ fs'[input_path] = fs_before[input_path]

C23_TempLeftForNextRun == [][C23_TempLeftStep]_vars

(* C23 amended: when deleting the original fails during promotion, the temp *)
(* file is not moved to the final path and the original remains as it was;  *)
(* the exception handler then removes the temp file and main() goes on to   *)
(* the next file with no file at the temp path; only when that removal      *)
(* fails too is the temp file left in place, and then the exception leaves  *)
(* main().                                                                  *)

C23_TempRemovedStep ==
    /\ (pc = "rmorig" /\ pc' = "except") => fs' = fs /\ C23_DeleteFailed'
    /\ C23_DeleteFailed =>
          /\ Exists(fs', input_path)
          /\ fs'[input_path] = fs_before[input_path]
          /\ \A q \in DOMAIN fs' : q # temp_output_path => SameAt(fs', fs, q)
          /\ \/ pc' = "loop" /\ ~Exists(fs', temp_output_path)
             \/ pc' = "raised" /\ fs' = fs

C23_TempRemovedByHandler == [][C23_TempRemovedStep]_vars

C23_Witness ==
    /\ pc = "returned"
    /\ ~keep_original
    /\ \E p \in DOMAIN fs0 :
        /\ Handled(p)
        /\ notices[p] # <<>>
        /\ LastNotice(p).text = "Error during file operation"
        /\ calls[p] # <<>>
        /\ Exists(fs, p) /\ fs[p] = fs0[p]
        /\ ~Exists(fs, TempPath(p, container_choice))

----------------------------------------------------------------------------
(* C24: no two files of the tree have external operations started on the    *)
(* same temp path: every candidate's temp path is its own.                  *)

C24_OwnTempPath ==
    \A p, q \in DOMAIN calls :
        p # q => \A i \in DOMAIN calls[p] : \A j \in DOMAIN calls[q] :
                     calls[p][i].output # calls[q][j].output

----------------------------------------------------------------------------
(* C25: there is no retry: at most one external operation, one remux_file   *)
(* or one transcode_file, is ever started for a file within a run, whatever *)
(* its outcome.                                                             *)

C25_NoRetry == \A p \in DOMAIN calls : Len(calls[p]) <= 1

C25_Witness ==
    /\ pc = "returned"
    /\ \E p, q \in DOMAIN fs0 :
        /\ OperationFailed(p) /\ Len(calls[p]) = 1
        /\ notices[q] # <<>> /\ LastNotice(q).text = "Error during file operation"
        /\ Handled(q) /\ Len(calls[q]) = 1

----------------------------------------------------------------------------
(* C26: when main() has come to its end, every candidate has reached Done   *)
(* by one of three paths: skipped; operation run, succeeded and promoted;   *)
(* operation run, failed and cleaned up.  A temp file is promoted only      *)
(* after the operation returned success, never after a failure.             *)

C26_Skipped(p) == calls[p] = <<>> /\ notices[p] = <<Notice("Skipping", p)>>

C26_Promoted(p) ==
    /\ Len(calls[p]) = 1
    /\ LastNotice(p).text = "Successfully"
    /\ \A i \in DOMAIN notices[p] :
           notices[p][i].text \notin {"Failed to", "Error during file operation"}

C26_CleanedUp(p) ==
    /\ Len(calls[p]) = 1
    /\ LastNotice(p).text \in {"Failed to", "Error during file operation"}
    /\ \A i \in DOMAIN notices[p] : notices[p][i].text # "Successfully"
    /\ ~Exists(fs, TempPath(p, container_choice))

C26_Done(p) ==
    /\ Handled(p)
    /\ notices[p] # <<>>
    /\ C26_Skipped(p) \/ C26_Promoted(p) \/ C26_CleanedUp(p)

C26_EveryCandidateDone ==
    pc \in {"returned", "raised"} =>
        \A p \in DOMAIN probed : Candidate(probed[p]) => C26_Done(p)

-----------------------------------------------------------------------------
(* C27: get_media_info returns None when ffprobe is missing, when it exits  *)
(* non-zero and when its output is not valid JSON, never raising in these   *)
(* three cases; when ffprobe succeeds it returns the parsed output.         *)

\* the outputs that are JSON documents, with what they denote
C27_Documents ==
    { <<<<"{", "}">>, Returns(<<>>)>>,
      <<<<"null", LF>>, ReturnsNone>>,
      <<<<"{", FormatMember, "}", LF>>, Returns(<<FormatMember>>)>>,
      <<<<"{", FormatMember, ",", StreamsMember, "}", CRLF>>,
        Returns(<<FormatMember, StreamsMember>>)>> }

C27_ValidJson == \E d \in C27_Documents : d[1] = tool.run_stdout

C27_Parsed == (CHOOSE d \in C27_Documents : d[1] = tool.run_stdout)[2]

C27_FailureCase ==
    \/ tool.binary = "missing"
    \/ tool.binary = "ok" /\ tool.run_returncode # 0
    \/ tool.binary = "ok" /\ ~C27_ValidJson

C27_Success ==
    tool.binary = "ok" /\ tool.run_returncode = 0 /\ C27_ValidJson

C27_NoneOnFailure ==
    fn = "get_media_info" /\ at = "done" =>
        /\ C27_FailureCase => result = ReturnsNone
        /\ C27_Success => result = C27_Parsed

-----------------------------------------------------------------------------
(* C28: transcode_file builds its command with hevc_videotoolbox for h.265  *)
(* when ffmpeg -codecs lists it and libx265 otherwise, h264_videotoolbox    *)
(* for h.264 when listed and libx264 otherwise, libvpx-vp9 for vp9; when    *)
(* the listing fails (non-zero exit or missing binary) the command carries  *)
(* the software encoder and transcode_file goes on to launch it.            *)

C28_Listed(name) ==
    /\ tool.binary = "ok"
    /\ tool.run_returncode = 0
    /\ \E i \in DOMAIN tool.run_stdout : tool.run_stdout[i] = name

C28_Expected ==
    CASE video_codec_choice = "h.265" ->
            IF C28_Listed("hevc_videotoolbox") THEN "hevc_videotoolbox"
            ELSE "libx265"
      [] video_codec_choice = "h.264" ->
            IF C28_Listed("h264_videotoolbox") THEN "h264_videotoolbox"
            ELSE "libx264"
      [] video_codec_choice = "vp9" -> "libvpx-vp9"

C28_ListingFailed ==
    /\ video_codec_choice \in {"h.265", "h.264"}
    /\ \/ tool.binary = "missing"
       \/ tool.binary = "ok" /\ tool.run_returncode # 0

\* the encoder is the argument after -c:v
C28_Encoder == command[5]

C28_EncoderFromProbe ==
    fn = "transcode_file" =>
        /\ command # <<>> => command[4] = "-c:v" /\ C28_Encoder = C28_Expected
        /\ at # "start" /\ C28_ListingFailed =>
              /\ command # <<>>
              /\ C28_Encoder \in {"libx265", "libx264"}
              /\ result # Raises("CalledProcessError")

C28_Witness ==
    /\ fn = "transcode_file"
    /\ at = "wait"
    /\ C28_ListingFailed
    /\ \E i \in DOMAIN tool.run_stdout : tool.run_stdout[i] = "h264_videotoolbox"
    /\ C28_Encoder = "libx264"

-----------------------------------------------------------------------------
(* C29: transcode_file and remux_file return True when the process they     *)
(* started exits with code 0 and False when it exits with any other code,   *)
(* whatever the process printed.                                            *)

\* the conversion process was started
C29_Started ==
    /\ fn \in {"transcode_file", "remux_file"}
    /\ tool.binary = "ok"
    /\ at \in {"read", "write", "wait", "done"}
    /\ command # <<>>

C29_SuccessIffExitZero ==
    C29_Started /\ at = "done" =>
        result = Returns(<<IF tool.returncode = 0 THEN "True" ELSE "False">>)

-----------------------------------------------------------------------------
(* C30: every line the child prints is written to sys.stdout in the order   *)
(* printed, none dropped, duplicated or reordered; a line is written before *)
(* the next one is read, and the exit status is awaited only when the       *)
(* output is drained.                                                       *)

C30_Texts(s) == [i \in DOMAIN s |-> s[i].text]

\* at every moment the lines printed so far and to come are accounted for
C30_NoLineLost ==
    C30_Texts(sys_stdout \o line \o pipe \o child) = C30_Texts(tool.lines)

C30_InOrder ==
    C29_Started =>
        /\ C30_NoLineLost
        /\ at = "read" => line = <<>>
        /\ at = "wait" => line = <<>> /\ pipe = <<>> /\ child = <<>>
        /\ at = "done" => result.kind = "return" /\ line = <<>>
                          /\ pipe = <<>> /\ child = <<>>

-----------------------------------------------------------------------------
(* C31: in every state of a run, each video an operation was started for    *)
(* is still in the tree at its input path, at its temp path as a completed  *)
(* output, or at its final path: no sequence of delete, move and cleanup    *)
(* steps leaves it with neither an original nor a converted copy.           *)

\* the places the video of p may be in: input, temp and final paths
C31_Places(p) ==
    {p, TempPath(p, container_choice)}
    \cup {[dir |-> p.dir, stem |-> Append(p.stem, s), ext |-> container_choice] :
             s \in {"_remuxed", "_re-encoded", "_transcoded"}}

C31_Present(p) ==
    \E q \in C31_Places(p) :
        /\ Exists(fs, q)
        /\ fs[q].kind = "media"
        /\ fs[q].vid = fs0[p].vid

C31_NoVideoLost ==
    \A p \in DOMAIN fs0 : calls[p] # <<>> => C31_Present(p)

-----------------------------------------------------------------------------
(* C32: within one run no two input files have their outputs promoted to    *)
(* the same final path, in particular not two files of one directory with   *)
(* the same stem and different extensions, with keep-original on or off.    *)

\* the final paths main() reported a successful promotion to for p
C32_Outputs(p) ==
    {notices[p][i].path : i \in {j \in DOMAIN notices[p] :
                                    notices[p][j].text = "Successfully"}}

C32_DistinctFinalPaths ==
    \A p, q \in DOMAIN fs0 :
        p # q => C32_Outputs(p) \cap C32_Outputs(q) = {}

-----------------------------------------------------------------------------
(* C33 as stated: a step of main() deletes or overwrites a file that was in *)
(* the tree when the run began only when the file sits at the temp path of  *)
(* the file being converted, or when it is the input of an operation that   *)
(* has exited with code 0 and keep-original is off.                         *)

\* p still holds the file it held when the run began
C33_PreExisting(p) == p \in DOMAIN fs0 /\ Exists(fs, p) /\ fs[p] = fs0[p]

\* the step deletes or overwrites the file at p
C33_Touched(p) == Exists(fs, p) /\ (~Exists(fs', p) \/ fs'[p] # fs[p])

\* the file being handled has been classified Remux or Transcode
C33_Converting ==
    /\ input_path # NoPath
    /\ pc \in {"rmtemp", "exec", "makedirs", "rmorig", "move", "except",
               "opfailed"}

C33_AtTempPath(p) ==
    /\ C33_Converting
    /\ p = [dir |-> input_path.dir, stem |-> Append(input_path.stem, ".temp"),
            ext |-> container_choice]

\* the operation on the file being handled has exited with code 0
C33_OperationDone == input_path # NoPath /\ pc \in {"makedirs", "rmorig", "move"}

C33_ConvertedInput(p) == C33_OperationDone /\ ~keep_original /\ p = input_path

C33_FrameStep ==
    \A p \in DOMAIN fs :
        C33_PreExisting(p) /\ C33_Touched(p) =>
            C33_AtTempPath(p) \/ C33_ConvertedInput(p)

C33_OnlyTempOrConvertedInput == [][C33_FrameStep]_vars

(* C33 amended: a third case is the file at the final path of the file      *)
(* whose operation has exited with code 0, which with keep-original on is   *)
(* the sibling {stem}_{action}.{container}: the move replaces it.           *)

C33_AtFinalPath(p) ==
    /\ C33_OperationDone
    /\ keep_original
    /\ p \in {[dir |-> input_path.dir, stem |-> Append(input_path.stem, s),
               ext |-> container_choice] :
                 s \in {"_remuxed", "_re-encoded", "_transcoded"}}

C33_AmendedFrameStep ==
    \A p \in DOMAIN fs :
        C33_PreExisting(p) /\ C33_Touched(p) =>
            C33_AtTempPath(p) \/ C33_ConvertedInput(p) \/ C33_AtFinalPath(p)

C33_OnlyTempInputOrFinalPath == [][C33_AmendedFrameStep]_vars

\* a kept original, a removed leftover and a replaced earlier output
C33_Witness ==
    /\ pc = "returned"
    /\ keep_original
    /\ \E p, q \in DOMAIN fs0 :
        /\ Succeeded(p)
        /\ fs[p] = fs0[p]
        /\ q = LastNotice(p).path
        /\ fs[q] # fs0[q]

-----------------------------------------------------------------------------
(* C34: each file with a video extension that is in its directory when the  *)
(* directory is listed is probed exactly once in a run: never a second      *)
(* time, every one of them by the time the run has ended; and a file the    *)
(* run creates is never taken up as a new candidate.                        *)

C34_Ended == pc \in {"returned", "raised"}

C34_WasProbed(p) == probed[p] # NotProbed

C34_NotTwice ==
    pc = "probe" => input_path \in DOMAIN fs0 /\ ~C34_WasProbed(input_path)

C34_NoneCreated ==
    /\ files \subseteq DOMAIN fs0
    /\ input_path # NoPath => input_path \in DOMAIN fs0

C34_EveryOne ==
    C34_Ended =>
        \A p \in DOMAIN fs0 :
            Lower(p.ext) \in {"mkv", "mp4", "avi", "mov", "wmv", "flv", "webm",
                              "m2ts"} => C34_WasProbed(p)

C34_ProbedExactlyOnce == C34_NotTwice /\ C34_NoneCreated /\ C34_EveryOne

-----------------------------------------------------------------------------
(* C35: when main() moves on from a file it started an operation for, and   *)
(* when it has returned, no file is at that file's temp path: the temp      *)
(* artifact has been moved to the final path or removed, after a success,   *)
(* after a failed operation and after a failed promotion alike.             *)

C35_TempOf(p) ==
    [dir |-> p.dir, stem |-> Append(p.stem, ".temp"), ext |-> container_choice]

\* the step ends the iteration of a file an operation was started for
C35_MovesOn ==
    /\ input_path # NoPath
    /\ calls[input_path] # <<>>
    /\ input_path' = NoPath
    /\ pc' = "loop"

C35_MovingOnStep == C35_MovesOn => ~Exists(fs', C35_TempOf(input_path))

C35_ReturnedState ==
    pc = "returned" =>
        \A p \in DOMAIN fs0 : calls[p] # <<>> => ~Exists(fs, C35_TempOf(p))

C35_NoTempLeftBehind == [](C35_ReturnedState) /\ [][C35_MovingOnStep]_vars

\* a promotion failed, an operation failed and the run came to its end
C35_Witness ==
    /\ pc = "returned"
    /\ \E p, q \in DOMAIN fs0 :
        /\ Handled(p) /\ calls[p] # <<>>
        /\ LastNotice(p).text = "Error during file operation"
        /\ OperationFailed(q)
        /\ ~Exists(fs, C35_TempOf(p))
        /\ ~Exists(fs, C35_TempOf(q))

-----------------------------------------------------------------------------
(* C36: a file handled by the general block of main() (its extension is not *)
(* the target container) always has a video or an audio mismatch: the block *)
(* never calls remux_file, only transcode_file, and the output it promotes  *)
(* with keep-original on is named _transcoded, never _remuxed.              *)

C36_InGeneralBlock ==
    /\ input_path # NoPath
    /\ pc \in {"rmtemp", "exec", "makedirs", "rmorig", "move", "except",
               "opfailed"}
    /\ Lower(input_path.ext) # container_choice
    /\ LastNotice(input_path).text = "Processing"

C36_MismatchState ==
    C36_InGeneralBlock =>
        /\ ~(VideoConforms(probed[input_path]) /\ AudioConforms(probed[input_path]))
        /\ \A i \in DOMAIN calls[input_path] :
              calls[input_path][i].op = "transcode_file"

C36_LabelStep ==
    C36_InGeneralBlock /\ keep_original /\ notices' # notices
    /\ notices'[input_path][Len(notices'[input_path])].text = "Successfully" =>
        notices'[input_path][Len(notices'[input_path])].path =
            [dir |-> input_path.dir,
             stem |-> Append(input_path.stem, "_transcoded"),
             ext |-> container_choice]

=============================================================================
